---- MODULE Spec2Model ----
\* Model of script.py: search Pixabay for an image, stream it to
\* assets/image.jpg, optionally drive a headless browser to upload it to
\* Canva, and write artifacts/run.json.
EXTENDS Integers, Sequences, FiniteSets, TLC

\* ---------------------------------------------------------------- bounds
MaxHits == 2
MaxChunks == 2

\* ---------------------------------------------------------------- values
\* Python None: an unset environment variable, a missing or null JSON field.
None == "<None>"
U1 == "http://x/a.jpg"
U2 == "http://x/b.jpg"
OldURL == "http://x/old.jpg"
FieldValues == {None, "", U1, U2}
KeyValues == {None, "", "k"}
QueryValues == {None, "cats"}
CredValues == {None, "", "x"}
\* Chunks delivered by iter_content: byte strings over the bytes 1 and 2.
ChunkValues == {<<>>, <<1>>, <<2>>, <<1, 2>>}
OldData == <<2, 2, 1>>

ASSET == "assets/image.jpg"
RUNJSON == "artifacts/run.json"
AFTERPNG == "artifacts/canva_after_upload.png"
ERRORPNG == "artifacts/error.png"

SeqsUpTo(S, n) == UNION {[1..k -> S] : k \in 0..n}

Hit == [webformatURL : FieldValues, largeImageURL : FieldValues]
\* r.json(): the "hits" key is a list, is null, or is missing.
Responses == [kind : {"list"}, hits : SeqsUpTo(Hit, MaxHits)]
               \cup [kind : {"null", "missing"}, hits : {<<>>}]
NoData == [kind |-> "none", hits |-> <<>>]
NoResp == [live |-> FALSE, chunks |-> <<>>, complete |-> FALSE]
Bodies == SeqsUpTo(ChunkValues, MaxChunks)

NoFile == [exists |-> FALSE, data |-> <<>>]
NoRecord == [exists |-> FALSE, url |-> None, query |-> None]

VARIABLES pc, exit, uncaught, api_key, query, url, data, r,
          asset, runRecord, shots, written, log, calls,
          email, password, pcU, pw, browser, context, trace, pending

mainVars == <<pc, exit, uncaught, api_key, query, url, data, r>>
diskVars == <<asset, runRecord, shots, written>>
uploadVars == <<email, password, pcU, pw, browser, context, trace, pending>>
vars == <<pc, exit, uncaught, api_key, query, url, data, r,
          asset, runRecord, shots, written, log, calls,
          email, password, pcU, pw, browser, context, trace, pending>>

\* ------------------------------------------------------- pure functions
\* Python truthiness of an Optional[str].
Truthy(v) == v \notin {None, ""}

\* `a or b`
Or(a, b) == IF Truthy(a) THEN a ELSE b

\* `if not api_key`
KeyMissing_OnlyUnset(k) == k = None
KeyMissing(k) == ~Truthy(k)

\* os.environ.get("PIXABAY_QUERY", "sunset")
QueryOf(v) == IF v = None THEN "sunset" ELSE v

\* data.get("hits") or []
HitsOf(d) == IF d.kind = "list" THEN d.hits ELSE <<>>

\* hits[0].get("webformatURL") or hits[0].get("largeImageURL")
PickURL_LargeFirst(hits) == Or(hits[1].largeImageURL, hits[1].webformatURL)
PickURL(hits) == Or(hits[1].webformatURL, hits[1].largeImageURL)

\* lines 27-31 of get_pixabay_image_url
ResultOf(d) == IF HitsOf(d) = <<>> THEN None ELSE PickURL(HitsOf(d))

\* `if not url` in main
NotUrl_OnlyEmpty(u) == u = ""
NotUrl(u) == ~Truthy(u)

\* open(out_path, "wb"): the file is created or truncated.
OpenWB_Append(old) == old
OpenWB(old) == <<>>

\* for chunk in r.iter_content(...): if chunk: f.write(chunk)
RECURSIVE WriteChunks(_, _)
WriteChunks(f, chunks) ==
  IF chunks = <<>> THEN f
  ELSE WriteChunks(IF Head(chunks) # <<>> THEN f \o Head(chunks) ELSE f,
                   Tail(chunks))

\* What the file holds when the with-blocks of download are left: every
\* chunk is written as it arrives, complete stream or not.
StreamToFile_Buffered(old, chunks, complete) ==
  IF complete THEN WriteChunks(OpenWB(old), chunks) ELSE OpenWB(old)
StreamToFile(old, chunks, complete) == WriteChunks(OpenWB(old), chunks)

\* `if not email or not password`
CredsMissing_And(e, p) == ~Truthy(e) /\ ~Truthy(p)
CredsMissing(e, p) == ~Truthy(e) \/ ~Truthy(p)

\* ------------------------------------------------------------------ Init
Init ==
  /\ pc = "main" /\ exit = <<>> /\ uncaught = "none"
  /\ api_key = None /\ query = None /\ url = None
  /\ data = NoData /\ r = NoResp
  /\ \E prior \in BOOLEAN :
       /\ asset = IF prior THEN [exists |-> TRUE, data |-> OldData] ELSE NoFile
       /\ runRecord = IF prior
                      THEN [exists |-> TRUE, url |-> OldURL, query |-> "sunset"]
                      ELSE NoRecord
       /\ shots = IF prior THEN {AFTERPNG} ELSE {}
  /\ written = {}
  /\ log = <<>>
  /\ calls = [search |-> 0, download |-> 0, upload |-> 0, record |-> 0]
  /\ email = None /\ password = None
  /\ pcU = "not_called" /\ pw = "none" /\ browser = "none" /\ context = "none"
  /\ trace = <<>> /\ pending = FALSE

\* An exception leaves main: traceback, interpreter exit status 1.
Crash(kind) == pc' = "exit" /\ exit' = <<1>> /\ uncaught' = kind

\* ------------------------------------------------------------------ main
\* lines 93-97
CheckKey ==
  /\ pc = "main"
  /\ \E k \in KeyValues, q \in QueryValues :
       /\ api_key' = k
       /\ query' = QueryOf(q)
       /\ IF KeyMissing(k)
          THEN /\ log' = Append(log, "no_key")
               /\ pc' = "exit" /\ exit' = <<1>>
          ELSE /\ log' = log
               /\ pc' = "search" /\ exit' = exit
  /\ UNCHANGED <<uncaught, url, data, r, calls>>
  /\ UNCHANGED diskVars /\ UNCHANGED uploadVars

\* lines 24-25: the request times out or raise_for_status() raises
SearchFails ==
  /\ pc = "search"
  /\ calls' = [calls EXCEPT !.search = @ + 1]
  /\ \E kind \in {"HTTPError", "Timeout"} : Crash(kind)
  /\ UNCHANGED <<api_key, query, url, data, r, log>>
  /\ UNCHANGED diskVars /\ UNCHANGED uploadVars

\* lines 24-26: a response arrives and is decoded
SearchResponse ==
  /\ pc = "search"
  /\ calls' = [calls EXCEPT !.search = @ + 1]
  /\ \E d \in Responses : data' = d
  /\ pc' = "search_resp"
  /\ UNCHANGED <<exit, uncaught, api_key, query, url, r, log>>
  /\ UNCHANGED diskVars /\ UNCHANGED uploadVars

\* lines 27-31 and the assignment of line 99
SearchReturn ==
  /\ pc = "search_resp"
  /\ url' = ResultOf(data)
  /\ pc' = "search_ret"
  /\ UNCHANGED <<exit, uncaught, api_key, query, data, r, log, calls>>
  /\ UNCHANGED diskVars /\ UNCHANGED uploadVars

\* lines 100-102
NoHitsExit ==
  /\ pc = "search_ret"
  /\ NotUrl(url)
  /\ log' = Append(log, "no_hits")
  /\ pc' = "exit" /\ exit' = <<1>>
  /\ UNCHANGED <<uncaught, api_key, query, url, data, r, calls>>
  /\ UNCHANGED diskVars /\ UNCHANGED uploadVars

\* lines 100, 104: the URL is usable, go on to download(url, img_path)
HaveURL ==
  /\ pc = "search_ret"
  /\ ~NotUrl(url)
  /\ data' = NoData
  /\ pc' = "download"
  /\ UNCHANGED <<exit, uncaught, api_key, query, url, r, log, calls>>
  /\ UNCHANGED diskVars /\ UNCHANGED uploadVars

\* ------------------------------------------------------------- download
\* line 109 follows line 105-106: the next call of main after download
AfterDownload_SkipUpload == "record"
AfterDownload == "upload"

\* lines 34-35: the request times out or raise_for_status() raises; the
\* destination has not been opened yet
DownloadRequestFails ==
  /\ pc = "download"
  /\ calls' = [calls EXCEPT !.download = @ + 1]
  /\ \E kind \in {"HTTPError", "Timeout"} : Crash(kind)
  /\ UNCHANGED <<api_key, query, url, data, r, log>>
  /\ UNCHANGED diskVars /\ UNCHANGED uploadVars

\* lines 34-35: a success status arrives; the body is what the stream will
\* deliver, wholly or until the connection times out
DownloadResponse ==
  /\ pc = "download"
  /\ calls' = [calls EXCEPT !.download = @ + 1]
  /\ \E b \in Bodies, c \in BOOLEAN :
       r' = [live |-> TRUE, chunks |-> b, complete |-> c]
  /\ pc' = "download_stream"
  /\ UNCHANGED <<exit, uncaught, api_key, query, url, data, log>>
  /\ UNCHANGED diskVars /\ UNCHANGED uploadVars

\* lines 36-39 and 106: the whole stream is written, download returns
DownloadCompletes ==
  /\ pc = "download_stream"
  /\ r.complete
  /\ asset' = [exists |-> TRUE,
               data |-> StreamToFile(asset.data, r.chunks, r.complete)]
  /\ written' = written \cup {ASSET}
  /\ log' = Append(log, "downloaded")
  /\ r' = NoResp
  /\ pc' = AfterDownload
  /\ UNCHANGED <<exit, uncaught, api_key, query, url, data, calls>>
  /\ UNCHANGED <<runRecord, shots>> /\ UNCHANGED uploadVars

\* lines 36-39: the stream breaks after the chunks of r.chunks; the
\* exception leaves both with-blocks and main
DownloadAborts ==
  /\ pc = "download_stream"
  /\ ~r.complete
  /\ asset' = [exists |-> TRUE,
               data |-> StreamToFile(asset.data, r.chunks, r.complete)]
  /\ written' = written \cup {ASSET}
  /\ Crash("Timeout")
  /\ UNCHANGED <<api_key, query, url, data, r, log, calls>>
  /\ UNCHANGED <<runRecord, shots>> /\ UNCHANGED uploadVars

\* --------------------------------------------------------------- upload
\* The statements of the try body, lines 54-81, in order.
TrySteps == <<"goto_home", "click_login", "fill_email", "fill_password",
              "press_enter", "wait_networkidle", "goto_create",
              "click_uploads", "set_input_files", "wait_timeout",
              "screenshot_ok">>

IndexOf(s) == CHOOSE i \in 1..Len(TrySteps) : TrySteps[i] = s
InTry(s) == \E i \in 1..Len(TrySteps) : TrySteps[i] = s

\* The statement after try step s; after the last one, the finally clause.
AfterStep(s) ==
  IF IndexOf(s) < Len(TrySteps) THEN TrySteps[IndexOf(s) + 1]
  ELSE "close_context"

\* lines 71-74: `except PWTimeout: pass` around the Uploads click only
Tolerated_AnyError(s, kind) == s = "click_uploads"
Tolerated(s, kind) == s = "click_uploads" /\ kind = "PWTimeout"

\* The function is left: main goes on to line 112, or the exception
\* propagates out of main.
LeaveUpload(raising) ==
  IF raising
  THEN /\ pcU' = "raised" /\ Crash("Error")
  ELSE /\ pcU' = "returned" /\ pc' = "record"
       /\ UNCHANGED <<exit, uncaught>>

\* lines 42-46: credentials missing, print and return
UploadSkipped ==
  /\ pc = "upload" /\ pcU = "not_called"
  /\ calls' = [calls EXCEPT !.upload = @ + 1]
  /\ \E e \in CredValues, p \in CredValues :
       /\ CredsMissing(e, p)
       /\ email' = e /\ password' = p
  /\ log' = Append(log, "skipping")
  /\ LeaveUpload(FALSE)
  /\ UNCHANGED <<api_key, query, url, data, r>>
  /\ UNCHANGED diskVars
  /\ UNCHANGED <<pw, browser, context, trace, pending>>

\* lines 42-44: credentials present, go on to line 48
UploadEnter ==
  /\ pc = "upload" /\ pcU = "not_called"
  /\ calls' = [calls EXCEPT !.upload = @ + 1]
  /\ \E e \in CredValues, p \in CredValues :
       /\ ~CredsMissing(e, p)
       /\ email' = e /\ password' = p
  /\ pcU' = "playwright"
  /\ UNCHANGED mainVars /\ UNCHANGED diskVars
  /\ UNCHANGED <<log, pw, browser, context, trace, pending>>

\* line 48: sync_playwright().__enter__() starts the driver, or raises
StartPlaywright ==
  /\ pc = "upload" /\ pcU = "playwright"
  /\ \E ok \in BOOLEAN :
       IF ok
       THEN /\ pw' = "started" /\ pcU' = "launch"
            /\ trace' = Append(trace, <<"playwright", "ok">>)
            /\ UNCHANGED <<pc, exit, uncaught>>
       ELSE /\ pw' = pw
            /\ trace' = Append(trace, <<"playwright", "Error">>)
            /\ LeaveUpload(TRUE)
  /\ UNCHANGED <<api_key, query, url, data, r>> /\ UNCHANGED diskVars
  /\ UNCHANGED <<log, calls, email, password, browser, context, pending>>

\* lines 49-51: launch, new_context, new_page, outside the try statement;
\* an exception goes straight to the exit of the with-block
Acquire ==
  /\ pc = "upload" /\ pcU \in {"launch", "new_context", "new_page"}
  /\ \E ok \in BOOLEAN :
       /\ trace' = Append(trace, <<pcU, IF ok THEN "ok" ELSE "Error">>)
       /\ IF ok
          THEN /\ browser' = IF pcU = "launch" THEN "open" ELSE browser
               /\ context' = IF pcU = "new_context" THEN "open" ELSE context
               /\ pcU' = CASE pcU = "launch" -> "new_context"
                           [] pcU = "new_context" -> "new_page"
                           [] OTHER -> TrySteps[1]
               /\ pending' = pending
          ELSE /\ UNCHANGED <<browser, context>>
               /\ pending' = TRUE
               /\ pcU' = "exit_with"
  /\ UNCHANGED mainVars /\ UNCHANGED diskVars
  /\ UNCHANGED <<log, calls, email, password, pw>>

\* lines 54-82: one statement of the try body succeeds
TryStepOk ==
  /\ pc = "upload" /\ InTry(pcU)
  /\ trace' = Append(trace, <<pcU, "ok">>)
  /\ IF pcU = "screenshot_ok"
     THEN /\ shots' = shots \cup {AFTERPNG}
          /\ written' = written \cup {AFTERPNG}
          /\ log' = Append(log, "upload_attempted")
     ELSE UNCHANGED <<shots, written, log>>
  /\ pcU' = AfterStep(pcU)
  /\ UNCHANGED mainVars /\ UNCHANGED <<asset, runRecord>>
  /\ UNCHANGED <<calls, email, password, pw, browser, context, pending>>

\* lines 71-74: the exception of the Uploads click is swallowed
TryStepTolerated ==
  /\ pc = "upload" /\ InTry(pcU)
  /\ \E kind \in {"PWTimeout", "Error"} :
       /\ Tolerated(pcU, kind)
       /\ trace' = Append(trace, <<pcU, kind>>)
  /\ pcU' = AfterStep(pcU)
  /\ UNCHANGED mainVars /\ UNCHANGED diskVars
  /\ UNCHANGED <<log, calls, email, password, pw, browser, context, pending>>

\* lines 84-85: a statement of the try body raises, the handler prints
TryStepRaises ==
  /\ pc = "upload" /\ InTry(pcU)
  /\ \E kind \in {"PWTimeout", "Error"} :
       /\ ~Tolerated(pcU, kind)
       /\ trace' = Append(trace, <<pcU, kind>>)
       /\ log' = Append(log, "failed:" \o kind)
  /\ pcU' = "handler"
  /\ UNCHANGED mainVars /\ UNCHANGED diskVars
  /\ UNCHANGED <<calls, email, password, pw, browser, context, pending>>

\* line 86: the failure screenshot, inside the handler and unguarded
Handler ==
  /\ pc = "upload" /\ pcU = "handler"
  /\ \E ok \in BOOLEAN :
       /\ trace' = Append(trace, <<"screenshot_err", IF ok THEN "ok" ELSE "Error">>)
       /\ IF ok
          THEN /\ shots' = shots \cup {ERRORPNG}
               /\ written' = written \cup {ERRORPNG}
               /\ pending' = pending
          ELSE /\ UNCHANGED <<shots, written>>
               /\ pending' = TRUE
  /\ pcU' = "close_context"
  /\ UNCHANGED mainVars /\ UNCHANGED <<asset, runRecord>>
  /\ UNCHANGED <<log, calls, email, password, pw, browser, context>>

\* line 88, first statement of the finally clause; if it raises, line 89
\* is not executed
CloseContext ==
  /\ pc = "upload" /\ pcU = "close_context"
  /\ \E ok \in BOOLEAN :
       /\ trace' = Append(trace, <<"close_context", IF ok THEN "ok" ELSE "Error">>)
       /\ IF ok
          THEN context' = "closed" /\ pending' = pending
               /\ pcU' = "close_browser"
          ELSE context' = context /\ pending' = TRUE
               /\ pcU' = "exit_with"
  /\ UNCHANGED mainVars /\ UNCHANGED diskVars
  /\ UNCHANGED <<log, calls, email, password, pw, browser>>

\* line 89
CloseBrowser ==
  /\ pc = "upload" /\ pcU = "close_browser"
  /\ \E ok \in BOOLEAN :
       /\ trace' = Append(trace, <<"close_browser", IF ok THEN "ok" ELSE "Error">>)
       /\ IF ok
          THEN browser' = "closed" /\ pending' = pending
          ELSE browser' = browser /\ pending' = TRUE
  /\ pcU' = "exit_with"
  /\ UNCHANGED mainVars /\ UNCHANGED diskVars
  /\ UNCHANGED <<log, calls, email, password, pw, context>>

\* line 48, sync_playwright().__exit__(): the driver process is stopped,
\* and a browser (with its contexts) it launched that was not closed by
\* lines 88-89 is terminated with it.
StopDriver_Leak(b) == b
StopDriver(b) == IF b = "open" THEN "killed" ELSE b

\* line 48: the with-block is left; a pending exception goes on to the
\* caller
ExitWith ==
  /\ pc = "upload" /\ pcU = "exit_with"
  /\ pw' = "stopped"
  /\ browser' = StopDriver(browser)
  /\ context' = StopDriver(context)
  /\ LeaveUpload(pending)
  /\ UNCHANGED <<api_key, query, url, data, r>> /\ UNCHANGED diskVars
  /\ UNCHANGED <<log, calls, email, password, trace, pending>>

\* --------------------------------------------------------------- record
\* lines 112-114, then main returns: exit status 0
RecordRun ==
  /\ pc = "record"
  /\ calls' = [calls EXCEPT !.record = @ + 1]
  /\ runRecord' = [exists |-> TRUE, url |-> url, query |-> query]
  /\ written' = written \cup {RUNJSON}
  /\ log' = Append(log, "done")
  /\ pc' = "exit" /\ exit' = <<0>>
  /\ UNCHANGED <<uncaught, api_key, query, url, data, r>>
  /\ UNCHANGED <<asset, shots>> /\ UNCHANGED uploadVars

Next ==
  \/ CheckKey
  \/ SearchFails
  \/ SearchResponse
  \/ SearchReturn
  \/ NoHitsExit
  \/ HaveURL
  \/ DownloadRequestFails
  \/ DownloadResponse
  \/ DownloadCompletes
  \/ DownloadAborts
  \/ UploadSkipped
  \/ UploadEnter
  \/ StartPlaywright
  \/ Acquire
  \/ TryStepOk
  \/ TryStepTolerated
  \/ TryStepRaises
  \/ Handler
  \/ CloseContext
  \/ CloseBrowser
  \/ ExitWith
  \/ RecordRun

Spec == Init /\ [][Next]_vars

TypeOK ==
  /\ pc \in {"main", "search", "search_resp", "search_ret", "download",
             "download_stream", "upload", "record", "exit"}
  /\ exit \in {<<>>, <<0>>, <<1>>}
  /\ calls \in [{"search", "download", "upload", "record"} -> 0..2]
  /\ browser \in {"none", "open", "closed", "killed"}
  /\ context \in {"none", "open", "closed", "killed"}
  /\ pw \in {"none", "started", "stopped"}
  /\ pending \in BOOLEAN

\* ---------------------------------------------------------- properties
InLog(m) == \E i \in DOMAIN log : log[i] = m

RECURSIVE Flatten(_)
Flatten(chunks) ==
  IF chunks = <<>> THEN <<>> ELSE Head(chunks) \o Flatten(Tail(chunks))

RECURSIVE TotalLen(_)
TotalLen(chunks) ==
  IF chunks = <<>> THEN 0 ELSE Len(Head(chunks)) + TotalLen(Tail(chunks))

Terminal == pc = "exit"

\* C1: once the search returned a URL and download() succeeded, the run
\* ends with artifacts/run.json holding exactly the URL and the query and
\* with exit code 0, whatever happened in upload_to_canva.
C1_RecordAlwaysWritten ==
  (Terminal /\ InLog("downloaded")) =>
    /\ runRecord = [exists |-> TRUE, url |-> url, query |-> query]
    /\ RUNJSON \in written
    /\ exit = <<0>>

\* C2: whenever upload_to_canva is left after the browser was launched,
\* neither the browser nor a context is still open.
C2_BrowserReleased ==
  (pcU \in {"returned", "raised"} /\ browser # "none") =>
    /\ browser \in {"closed", "killed"}
    /\ context \in {"none", "closed", "killed"}
    /\ pw = "stopped"

C2_Witness ==
  /\ pcU = "raised"
  /\ \E i \in DOMAIN trace : trace[i] = <<"close_context", "Error">>
  /\ browser = "killed"

\* C3: with PIXABAY_API_KEY unset or empty the run ends with exit code 1,
\* before any search, download, upload or record step, and no file has
\* been written.
C3_NoKeyExit ==
  (pc # "main" /\ api_key \in {None, ""}) =>
    /\ Terminal /\ exit = <<1>> /\ uncaught = "none"
    /\ \A s \in DOMAIN calls : calls[s] = 0
    /\ written = {}
    /\ trace = <<>> /\ pcU = "not_called"
    /\ ERRORPNG \notin shots

C3_Witness == Terminal /\ api_key = "" /\ exit = <<1>> /\ log = <<"no_key">>

EmptyHits(d) == d.kind \in {"null", "missing"} \/ (d.kind = "list" /\ d.hits = <<>>)

\* C4: for a response whose hits list is empty or missing the search
\* returns None without raising, and main then exits with code 1 without
\* download, upload, asset or run record.
C4_EmptyHitsExit ==
  /\ [](((pc \in {"search_ret", "exit"}) /\ EmptyHits(data)) =>
          (url = None /\ uncaught = "none"))
  /\ [][(pc = "search_ret" /\ EmptyHits(data)) =>
          /\ pc' = "exit" /\ exit' = <<1>> /\ uncaught' = "none"
          /\ calls'.download = 0 /\ calls'.upload = 0 /\ calls'.record = 0
          /\ UNCHANGED <<asset, runRecord, shots, written>>]_vars
  /\ [][Terminal => UNCHANGED vars]_vars

C4_Witness ==
  /\ Terminal /\ data.kind = "missing" /\ url = None /\ exit = <<1>>
  /\ InLog("no_hits") /\ written = {}

\* The URL the claim names: the first hit's webformatURL, its largeImageURL
\* when the former is absent or empty.
FirstHitURL(d) ==
  IF d.hits[1].webformatURL \notin {None, ""}
  THEN d.hits[1].webformatURL
  ELSE d.hits[1].largeImageURL

\* C5 as stated: for every non-empty hits list the result is the first
\* hit's webformatURL (largeImageURL as the fallback) and main goes on to
\* download that URL.
C5_AlwaysDownloads ==
  [][(pc = "search_ret" /\ ~EmptyHits(data)) =>
       /\ url = FirstHitURL(data)
       /\ pc' = "download" /\ url' = url]_vars

\* C5 amended: for every non-empty hits list the result is the first hit's
\* webformatURL, or its largeImageURL when the former is absent or empty,
\* whatever the later hits are; main goes on to download that URL when it
\* is a non-empty string, and exits with code 1 without a download when
\* both fields of the first hit are absent or empty.
C5_FirstHitURL ==
  [][(pc = "search_ret" /\ ~EmptyHits(data)) =>
       /\ url = FirstHitURL(data)
       /\ url' = url
       /\ IF url \notin {None, ""}
          THEN pc' = "download" /\ exit' = <<>>
          ELSE pc' = "exit" /\ exit' = <<1>> /\ calls'.download = 0]_vars

C5_Witness ==
  /\ pc = "search_ret" /\ data.kind = "list" /\ Len(data.hits) = 2
  /\ data.hits[1].webformatURL = "" /\ data.hits[1].largeImageURL = U2
  /\ data.hits[2].webformatURL = U1
  /\ url = U2

\* C6: with CANVA_EMAIL or CANVA_PASSWORD unset or empty, upload_to_canva
\* starts no driver, browser or context, takes no browser step, writes no
\* file, and returns normally to main with the disk as it was.
C6_SkipIsFrameOnly ==
  [][(pc = "upload" /\ pcU = "not_called"
        /\ (email' \in {None, ""} \/ password' \in {None, ""})) =>
       /\ pcU' = "returned" /\ pc' = "record" /\ uncaught' = "none"
       /\ trace' = <<>> /\ pw' = "none" /\ browser' = "none" /\ context' = "none"
       /\ UNCHANGED <<asset, runRecord, shots, written, url, query>>]_vars

C6_Witness ==
  /\ pcU = "returned" /\ email = "x" /\ password = ""
  /\ trace = <<>> /\ InLog("skipping") /\ pw = "none"

\* C7: an HTTP error status or a timeout in the search request or in the
\* download ends the process with the exception uncaught; upload_to_canva
\* was not called and run.json was not written; when the stream broke in
\* the middle, assets/image.jpg holds the chunks received so far.
C7_TransportErrorsPropagate ==
  (uncaught \in {"HTTPError", "Timeout"}) =>
    /\ Terminal /\ exit = <<1>>
    /\ calls.upload = 0 /\ calls.record = 0 /\ pcU = "not_called"
    /\ RUNJSON \notin written
    /\ ~InLog("downloaded") /\ ~InLog("done")
    /\ IF r.live
       THEN /\ asset = [exists |-> TRUE, data |-> Flatten(r.chunks)]
            /\ ASSET \in written
       ELSE ASSET \notin written

C7_Witness ==
  /\ uncaught = "Timeout" /\ r.live /\ ~r.complete
  /\ r.chunks = <<<<1, 2>>, <<2>>>>
  /\ asset.data = <<1, 2, 2>>

\* C8: when download() succeeds, the destination file holds the
\* concatenation, in order, of the chunks of the stream, so its length is
\* the length of the response body, whatever it held before.
C8_FileIsBody ==
  [][(pc = "download_stream" /\ r.complete) =>
       /\ asset' = [exists |-> TRUE, data |-> Flatten(r.chunks)]
       /\ Len(asset'.data) = TotalLen(r.chunks)
       /\ ASSET \in written']_vars

C8_Witness ==
  /\ pc = "upload" /\ InLog("downloaded")
  /\ runRecord.url = OldURL
  /\ asset = [exists |-> TRUE, data |-> <<1, 2, 1>>]

\* C9: the steps of main run in the order search, download, upload,
\* record, each at most once; the upload is attempted only after the
\* download completed, the record is written only after the upload step
\* returned, so a record written in this run implies a completed download.
C9_LinearOrder ==
  /\ \A s \in DOMAIN calls : calls[s] <= 1
  /\ calls.download = 1 => (calls.search = 1 /\ Truthy(url))
  /\ calls.upload = 1 => (calls.download = 1 /\ InLog("downloaded"))
  /\ calls.record = 1 => (calls.upload = 1 /\ pcU = "returned")
  /\ pcU # "not_called" => calls.upload = 1
  /\ RUNJSON \in written =>
       /\ calls.record = 1 /\ InLog("downloaded")
       /\ asset.exists /\ ASSET \in written
  /\ exit = <<0>> => (calls.record = 1 /\ Terminal)

C9_Witness ==
  /\ Terminal /\ exit = <<0>> /\ RUNJSON \in written
  /\ calls = [search |-> 1, download |-> 1, upload |-> 1, record |-> 1]
  /\ Len(trace) > 0

IsTryRaise(t) == InTry(t[1]) /\ t[2] # "ok"
IsUploadsTimeout(t) == t = <<"click_uploads", "PWTimeout">>

\* The step that follows entry i of the trace, or the position the
\* function is at when entry i is the last one.
FollowedBy(i) == IF i < Len(trace) THEN trace[i + 1][1] ELSE pcU

\* C10: a timeout of the Uploads click is tolerated (the sequence goes on
\* with the file input, and is not what takes the failure path); any other
\* exception in the try body aborts the rest and takes the failure path;
\* one run never writes both screenshots.
C10_OnlyUploadsTimeoutTolerated ==
  /\ ~({AFTERPNG, ERRORPNG} \subseteq written)
  /\ \A i \in DOMAIN trace :
       /\ IsUploadsTimeout(trace[i]) => FollowedBy(i) = "set_input_files"
       /\ (IsTryRaise(trace[i]) /\ ~IsUploadsTimeout(trace[i])) =>
            /\ FollowedBy(i) \in {"handler", "screenshot_err"}
            /\ InLog("failed:" \o trace[i][2])
            /\ AFTERPNG \notin written
  /\ (\A i \in DOMAIN trace : IsTryRaise(trace[i]) => IsUploadsTimeout(trace[i])) =>
       /\ ERRORPNG \notin written
       /\ ~InLog("failed:PWTimeout") /\ ~InLog("failed:Error")
       /\ (trace # <<>> /\ trace[Len(trace)][1] \in {"close_context", "close_browser"})
            => AFTERPNG \in written

C10_Witness ==
  /\ pcU = "returned" /\ AFTERPNG \in written
  /\ \E i \in DOMAIN trace : IsUploadsTimeout(trace[i])
  /\ InLog("upload_attempted")

====
